---- MODULE Spec2Model ----
(* Model of the Vulkan device resource pool and executor of CasparCG:       *)
(* src/src/accelerator/vulkan/util/device.cpp (struct device::impl and the  *)
(* public device facade).                                                  *)
EXTENDS Integers, Sequences, FiniteSets, TLC

(* ---------------------------------------------------------------------- *)
(* Bounds of the model                                                     *)
(* ---------------------------------------------------------------------- *)
NThreads == 2      \* client threads calling into the device
MaxTex   == 1      \* textures ever allocated
MaxBuf   == 2      \* host buffers ever allocated
MaxTasks == 1      \* tasks posted/spawned and not yet collected
MaxData  == 1      \* abstract byte patterns 0..MaxData (0 = all zero bytes)

Executor == 0                      \* the io_context_.run() thread
Threads  == 1..NThreads            \* client threads
Data     == 0..MaxData

(* Inputs the clients draw from. 65537 = 2^16 + 1 is a width the           *)
(* validation of create_texture accepts (it only checks width > 0).        *)
Shapes     == {<<1, 1, 1, 8>>, <<1, 1, 2, 8>>, <<65537, 1, 1, 8>>}
ArraySizes == {1}

(* Shapes the validation of create_texture rejects.                        *)
BadShapes  == {<<1, 1, 5, 8>>, <<0, 1, 1, 8>>}

(* Device-API calls of device.cpp that can fail, and the release of an     *)
(* idle entry by gc.                                                       *)
Faults == {"createImage", "createFence", "submit", "waitForFences", "release"}

(* The inputs in force in one specification: the client threads, the       *)
(* texture shapes they ask for, the byte patterns they write, the number   *)
(* of tasks they keep in flight, the calls that may fail, the states of a  *)
(* future in which a client destroys it without get(), whether the clients *)
(* destroy the device object at any time or only when they hold no handle  *)
(* and no future any more (orderly), the host buffers ever allocated, and  *)
(* whether a clear() of gc can overlap a push of a deleter on another      *)
(* thread (race), or every clear() and push takes effect at one instant.   *)
PoolScope == [threads |-> Threads, data |-> {0},
              shapes |-> {<<1, 1, 1, 8>>, <<1, 1, 2, 8>>},
              tasks |-> MaxTasks, faults |-> {},
              drop |-> {"ready"}, orderly |-> TRUE, buffers |-> MaxBuf,
              race |-> FALSE]
DataScope == [threads |-> {1}, data |-> Data,
              shapes |-> {<<1, 1, 1, 8>>, <<65537, 1, 1, 8>>},
              tasks |-> MaxTasks, faults |-> {},
              drop |-> {"ready"}, orderly |-> TRUE, buffers |-> MaxBuf,
              race |-> FALSE]
ExecScope == [threads |-> {1}, data |-> {0},
              shapes |-> {<<1, 1, 1, 8>>},
              tasks |-> MaxTasks + 1, faults |-> {},
              drop |-> {"pending", "ready"}, orderly |-> FALSE,
              buffers |-> MaxBuf - 1,
              race |-> FALSE]
FaultScope == [threads |-> {1}, data |-> {0},
               shapes |-> {<<1, 1, 1, 8>>} \cup BadShapes,
               tasks |-> MaxTasks, faults |-> Faults,
               drop |-> {"ready", "error"}, orderly |-> TRUE, buffers |-> MaxBuf,
              race |-> FALSE]

RaceScope == [threads |-> {1}, data |-> {0},
              shapes |-> {<<1, 1, 1, 8>>},
              tasks |-> MaxTasks, faults |-> {},
              drop |-> {"ready"}, orderly |-> TRUE, buffers |-> MaxBuf,
              race |-> TRUE]

(* ---------------------------------------------------------------------- *)
(* State                                                                   *)
(* ---------------------------------------------------------------------- *)
VARIABLES
    textures,       \* Seq of texture objects, index = identity
    buffers,        \* Seq of buffer objects, index = identity
    device_pools_,  \* [depth][stride-1][key] -> queue, flattened to one map
    host_pools_,    \* [write][size] -> queue, flattened to one map
    handles,        \* live pooled handles (shared_ptr control blocks)
    tasks,          \* packaged tasks and their futures
    io_queue,       \* ready handlers of io_context_, FIFO
    timers,         \* tasks suspended in timer.async_wait
    last_calls,     \* observation: create_* calls made by the last step
    lastreq,        \* observation: latest request per pool key
    impl_,          \* the impl object: who refers to it, where ~impl is
    scope           \* the inputs in force (fixed by the initial state)

vars == <<textures, buffers, device_pools_, host_pools_, handles,
          tasks, io_queue, timers, last_calls, lastreq, impl_, scope>>

(* ---------------------------------------------------------------------- *)
(* Pool keys                                                               *)
(* ---------------------------------------------------------------------- *)
TwoTo16 == 65536

(* (width << 16 & 0xFFFF0000) | (height & 0x0000FFFF) on 32-bit ints: the  *)
(* key is the 32-bit word whose high half is width mod 2^16 and whose low  *)
(* half is height mod 2^16. The word is kept as the pair <<high, low>>.    *)
PackKey(width, height) == <<width % TwoTo16, height % TwoTo16>>

(* info(): width = key >> 16, height = key & 0xFFFF                        *)
KeyWidth(key)  == key[1]
KeyHeight(key) == key[2]

DepthPoolIndex(depth) == IF depth = 8 THEN 0 ELSE 1

TexturePool(width, height, stride, depth) ==
    <<DepthPoolIndex(depth), stride - 1, PackKey(width, height)>>

HostPoolNoDirection(size, write) == <<1, size>>

(* host_pools_[write ? 1 : 0][size]                                        *)
HostPool(size, write) == <<IF write THEN 1 ELSE 0, size>>

(* concurrent_unordered_map::operator[]: a missing key reads as an empty   *)
(* queue and is inserted.                                                  *)
QueueAt(map, key) == IF key \in DOMAIN map THEN map[key] ELSE <<>>

WithQueue(map, key, q) ==
    [k \in DOMAIN map \cup {key} |-> IF k = key THEN q ELSE map[k]]

TryPopPeek(q) ==
    [ok   |-> q # <<>>,
     val  |-> IF q # <<>> THEN Head(q) ELSE 0,
     rest |-> q]

TryPopMiss(q) == [ok |-> FALSE, val |-> 0, rest |-> q]

(* concurrent_bounded_queue::try_pop                                       *)
TryPop(q) ==
    [ok   |-> q # <<>>,
     val  |-> IF q # <<>> THEN Head(q) ELSE 0,
     rest |-> IF q # <<>> THEN Tail(q) ELSE q]

PushEvict(q, r) == <<r>>

PushTwice(q, r) == Append(Append(q, r), r)

(* concurrent_bounded_queue::push                                          *)
Push(q, r) == Append(q, r)

ClearNone(map) == map

(* concurrent_bounded_queue::clear, applied to every queue of a table      *)
ClearAll(map) == [k \in DOMAIN map |-> <<>>]

Range(q) == {q[i] : i \in 1..Len(q)}
Occurrences(q, r) == Cardinality({i \in 1..Len(q) : q[i] = r})
Idle(map) == UNION {Range(map[k]) : k \in DOMAIN map}

(* ---------------------------------------------------------------------- *)
(* Texture and buffer objects (texture.cpp / buffer.cpp)                   *)
(* ---------------------------------------------------------------------- *)
TextureSize(tex) == tex.width * tex.height * tex.stride
TextureClear(tex) == [tex EXCEPT !.content = 0]
TextureSetDepth(tex, depth) == [tex EXCEPT !.depth = depth]
TextureCopyFrom(tex, buf) == [tex EXCEPT !.content = buf.content]
TextureCopyTo(tex, buf) == [buf EXCEPT !.content = tex.content]

(* ---------------------------------------------------------------------- *)
(* Observation of requests, per pool key                                   *)
(* ---------------------------------------------------------------------- *)
NoteRequest(lr, kind, key, res) ==
    {e \in lr : ~(e.kind = kind /\ e.key = key)}
        \cup {[kind |-> kind, key |-> key, res |-> res, released |-> FALSE]}

NoteRelease(lr, kind, res) ==
    {IF e.kind = kind /\ e.res = res THEN [e EXCEPT !.released = TRUE] ELSE e
        : e \in lr}

Expected(lr, kind, key) ==
    LET s == {e.res : e \in {x \in lr : x.kind = kind /\ x.key = key /\ x.released}}
    IN IF s = {} THEN 0 ELSE CHOOSE r \in s : TRUE

(* ---------------------------------------------------------------------- *)
(* create_texture / create_buffer                                          *)
(* ---------------------------------------------------------------------- *)
TextureAllocCalls == {"createImage", "allocateMemory", "bindImageMemory", "createImageView"}
BufferAllocCalls  == {"vmaCreateBuffer"}

(* device::impl::create_texture up to the construction of the handle.      *)
(* undef is the content of freshly allocated device memory.                *)
CreateTexture(pools, texs, lr, thread, width, height, stride, depth, clear, undef) ==
    LET pool == TexturePool(width, height, stride, depth)
        q    == QueueAt(pools, pool)
        p    == TryPop(q)
        tex  == IF p.ok THEN p.val ELSE Len(texs) + 1
        t1   == IF p.ok THEN texs
                ELSE Append(texs, [width |-> width, height |-> height,
                                   stride |-> stride, depth |-> depth,
                                   content |-> undef, alive |-> TRUE])
        t2   == [t1 EXCEPT ![tex] = TextureSetDepth(t1[tex], depth)]
        t3   == IF clear THEN [t2 EXCEPT ![tex] = TextureClear(t2[tex])] ELSE t2
    IN [pools    |-> WithQueue(pools, pool, p.rest),
        textures |-> t3,
        res      |-> tex,
        pool     |-> pool,
        lastreq  |-> NoteRequest(lr, "tex", pool, tex),
        call     |-> [op |-> "create_texture", thread |-> thread,
                      req |-> <<width, height, stride, depth>>, clear |-> clear,
                      res |-> tex, hit |-> p.ok, prelen |-> Len(q),
                      stale |-> t1[tex].content,
                      expect |-> Expected(lr, "tex", pool),
                      api |-> IF p.ok THEN {} ELSE TextureAllocCalls]]

(* device::impl::create_buffer up to the construction of the handle.       *)
CreateBuffer(pools, bufs, lr, thread, size, write, undef) ==
    LET pool == HostPool(size, write)
        q    == QueueAt(pools, pool)
        p    == TryPop(q)
        buf  == IF p.ok THEN p.val ELSE Len(bufs) + 1
        b1   == IF p.ok THEN bufs
                ELSE Append(bufs, [size |-> size, write |-> write,
                                   content |-> undef, alive |-> TRUE])
    IN [pools   |-> WithQueue(pools, pool, p.rest),
        buffers |-> b1,
        res     |-> buf,
        pool    |-> pool,
        lastreq |-> NoteRequest(lr, "buf", pool, buf),
        call    |-> [op |-> "create_buffer", thread |-> thread,
                     req |-> <<size, write>>, clear |-> FALSE,
                     res |-> buf, hit |-> p.ok, prelen |-> Len(q),
                     stale |-> b1[buf].content,
                     expect |-> Expected(lr, "buf", pool),
                     api |-> IF p.ok THEN {} ELSE BufferAllocCalls]]

(* ---------------------------------------------------------------------- *)
(* Pooled handles                                                          *)
(* ---------------------------------------------------------------------- *)
(* Holders of a reference to a handle.                                     *)
Client(t)     == <<"client", t>>      \* a variable of client thread t
Deleter(t)    == <<"deleter", t>>     \* thread t is running the deleter
TaskRef(id)   == <<"task", id>>       \* capture or local of task id
FutureRef(id) == <<"future", id>>     \* result stored in the future of task id

(* std::shared_ptr<T>(ptr, deleter): kind/res = the captured inner pointer, *)
(* pool = the queue the resource was popped from or created for (the       *)
(* texture deleter captures it, the buffer deleter computes its queue      *)
(* again), owners = the references. uploaded notes the bytes an upload     *)
(* wrote through this handle.                                              *)
NewHandle(kind, res, pool, owner, uploaded) ==
    [kind |-> kind, res |-> res, pool |-> pool, owners |-> {owner},
     uploaded |-> uploaded]

(* A copy of a byte view (array<T>): the copy shares the storage object,   *)
(* here the pooled buffer handle, with the view it was copied from.        *)
CopyView(h, owner) == [h EXCEPT !.owners = @ \cup {owner}]

CopySourceByReference(h, owner) == h

(* A copy of std::shared_ptr<texture>, as the capture [=] of the download  *)
(* coroutine makes of its source: one more holder of the pooled handle.    *)
CopySource(h, owner) == [h EXCEPT !.owners = @ \cup {owner}]

Held(hs, owner, kind) == {h \in hs : owner \in h.owners /\ h.kind = kind}
TheHeld(hs, owner, kind) == CHOOSE h \in hs : owner \in h.owners /\ h.kind = kind

Busy(t) == \E h \in handles : Deleter(t) \in h.owners

(* ---------------------------------------------------------------------- *)
(* Lifetime of the impl object                                             *)
(* ---------------------------------------------------------------------- *)
(* impl is referred to by the device object (device::impl_) and by the     *)
(* deleter of every pooled handle (self = shared_from_this()). device =    *)
(* the device object still exists; phase = "running" until the last        *)
(* reference goes, "joining" while ~impl waits in thread_.join(),          *)
(* "destroyed" when ~impl has returned, "terminated" when the process was  *)
(* ended by std::terminate and "aborted" when a failed CASPAR_VERIFY ended *)
(* it; thread = the thread that runs ~impl.                                *)
NewImpl == [device |-> TRUE, phase |-> "running", thread |-> Executor]

ReleaseSelfNoKeepAlive(impl, hs, thread) ==
    IF impl.phase = "running" /\ ~impl.device
    THEN [impl EXCEPT !.phase = IF thread = Executor THEN "terminated" ELSE "joining",
                      !.thread = thread]
    ELSE impl

(* The thread that drops the last reference to impl runs ~impl. On a       *)
(* client thread ~impl resets work_ and blocks in thread_.join(). On the   *)
(* executor thread thread_.join() joins the calling thread: it throws      *)
(* std::system_error out of the destructor, which ends the process.        *)
ReleaseSelf(impl, hs, thread) ==
    IF impl.phase = "running" /\ ~impl.device /\ hs = {}
    THEN [impl EXCEPT !.phase = IF thread = Executor THEN "terminated" ELSE "joining",
                      !.thread = thread]
    ELSE impl

(* The process still runs.                                                 *)
ProcessLive == impl_.phase \notin {"terminated", "aborted"}

(* Thread t is inside a deleter or inside ~impl.                           *)
Blocked(t) == Busy(t) \/ (impl_.phase = "joining" /\ impl_.thread = t)

(* Thread t can call a method of the device object.                        *)
CanCall(t) == ProcessLive /\ impl_.device /\ ~Blocked(t)

(* Thread t can use the handles and futures it holds.                      *)
CanRun(t) == ProcessLive /\ ~Blocked(t)

(* The queue a handle's deleter pushes to.                                 *)
DeleterPool(bufs, h) ==
    IF h.kind = "tex" THEN h.pool
    ELSE HostPool(bufs[h.res].size, bufs[h.res].write)

(* The texture deleter: pool->push(tex).                                   *)
TextureDeleter(pools, h) ==
    WithQueue(pools, h.pool, Push(QueueAt(pools, h.pool), h.res))

BufferDeleterLost(pools, bufs, h) ==
    WithQueue(pools, DeleterPool(bufs, h), <<h.res>>)

BufferDeleterOtherKey(pools, bufs, h) ==
    LET pool == HostPool(bufs[h.res].size, ~bufs[h.res].write)
    IN WithQueue(pools, pool, Push(QueueAt(pools, pool), h.res))

(* The buffer deleter: host_pools_[buf->write()][buf->size()].push(buf).   *)
BufferDeleter(pools, bufs, h) ==
    LET pool == DeleterPool(bufs, h)
    IN WithQueue(pools, pool, Push(QueueAt(pools, pool), h.res))

(* Running the deleter of handle h on state record st.                     *)
RunDeleter(st, bufs, h) ==
    [handles |-> st.handles \ {h},
     device  |-> IF h.kind = "tex" THEN TextureDeleter(st.device, h) ELSE st.device,
     host    |-> IF h.kind = "buf" THEN BufferDeleter(st.host, bufs, h) ELSE st.host,
     lastreq |-> NoteRelease(st.lastreq, h.kind, h.res)]

DropRefEager(st, bufs, h, owner) ==
    LET h1 == [h EXCEPT !.owners = @ \ {owner}]
    IN [RunDeleter(st, bufs, h) EXCEPT
            !.handles = IF h1.owners = {} THEN @ ELSE (st.handles \ {h}) \cup {h1}]

(* Dropping one reference; the last one runs the deleter at once (used for *)
(* references dropped by the executor thread inside a task).               *)
DropRef(st, bufs, h, owner) ==
    LET h1 == [h EXCEPT !.owners = @ \ {owner}]
    IN IF h1.owners = {}
       THEN RunDeleter(st, bufs, h)
       ELSE [st EXCEPT !.handles = (@ \ {h}) \cup {h1}]

(* ---------------------------------------------------------------------- *)
(* Initial state: device::impl::impl                                       *)
(* ---------------------------------------------------------------------- *)
InitDevice ==
    /\ textures = <<>>
    /\ buffers = <<>>
    /\ device_pools_ = <<>>
    /\ host_pools_ = <<>>
    /\ handles = {}
    /\ tasks = <<>>
    /\ io_queue = <<>>
    /\ timers = {}
    /\ last_calls = <<>>
    /\ lastreq = {}
    /\ impl_ = NewImpl

Init == InitDevice /\ scope = PoolScope

InitData == InitDevice /\ scope = DataScope

InitExec == InitDevice /\ scope = ExecScope

InitFault == InitDevice /\ scope = FaultScope

InitRace == InitDevice /\ scope = RaceScope

(* ---------------------------------------------------------------------- *)
(* Client operations                                                       *)
(* ---------------------------------------------------------------------- *)
PublicNoClear == FALSE

(* device::create_texture always asks for a cleared texture.               *)
PublicClear == TRUE

(* CASPAR_VERIFY(stride > 0 && stride < 5); CASPAR_VERIFY(width > 0 &&     *)
(* height > 0)                                                             *)
ValidTextureNoStride(width, height, stride) == width > 0 /\ height > 0

ValidTexture(width, height, stride) ==
    stride > 0 /\ stride < 5 /\ width > 0 /\ height > 0

(* CASPAR_VERIFY(size > 0)                                                 *)
ValidBuffer(size) == size > 0

(* A failed CASPAR_VERIFY (common/assert.h) is fatal: the call goes no     *)
(* further and the process ends.                                           *)
VerifyFailed(impl) == [impl EXCEPT !.phase = "aborted"]

VerifyCall(thread, req) ==
    [op |-> "verify_failed", thread |-> thread, req |-> req, clear |-> FALSE,
     res |-> 0, hit |-> FALSE, prelen |-> 0, stale |-> 0, expect |-> 0, api |-> {}]

(* device::create_texture, on the calling thread.                          *)
create_texture(t, width, height, stride, depth) ==
    /\ CanCall(t)
    /\ IF ValidTexture(width, height, stride)
       THEN /\ \E undef \in scope.data :
                LET r == CreateTexture(device_pools_, textures, lastreq, t,
                                       width, height, stride, depth, PublicClear, undef)
                IN /\ Len(r.textures) <= MaxTex
                   /\ textures' = r.textures
                   /\ device_pools_' = r.pools
                   /\ lastreq' = r.lastreq
                   /\ handles' = handles \cup
                        {NewHandle("tex", r.res, r.pool, Client(t), <<>>)}
                   /\ last_calls' = <<r.call>>
            /\ UNCHANGED impl_
       ELSE /\ impl_' = VerifyFailed(impl_)
            /\ last_calls' = <<VerifyCall(t, <<width, height, stride, depth>>)>>
            /\ UNCHANGED <<textures, device_pools_, lastreq, handles>>
    /\ UNCHANGED <<scope, buffers, host_pools_, tasks, io_queue, timers>>

(* device::create_array, on the calling thread.                            *)
create_array(t, size) ==
    /\ CanCall(t)
    /\ ValidBuffer(size)
    /\ \E undef \in scope.data :
        LET r == CreateBuffer(host_pools_, buffers, lastreq, t, size, TRUE, undef)
        IN /\ Len(r.buffers) <= scope.buffers
           /\ buffers' = r.buffers
           /\ host_pools_' = r.pools
           /\ lastreq' = r.lastreq
           /\ handles' = handles \cup {NewHandle("buf", r.res, r.pool, Client(t), <<>>)}
           /\ last_calls' = <<r.call>>
    /\ UNCHANGED <<scope, textures, device_pools_, tasks, io_queue, timers, impl_>>

(* A client drops its reference to a handle (texture handle or array). The *)
(* thread that drops the last reference enters the deleter.                *)
release(t, h) ==
    /\ CanRun(t)
    /\ h \in handles
    /\ Client(t) \in h.owners
    /\ LET rest == h.owners \ {Client(t)}
       IN handles' = (handles \ {h}) \cup
            {[h EXCEPT !.owners = IF rest = {} THEN {Deleter(t)} ELSE rest]}
    /\ last_calls' = <<>>
    /\ UNCHANGED <<scope, textures, buffers, device_pools_, host_pools_, tasks,
                   io_queue, timers, lastreq, impl_>>

(* The deleter of the handle runs on the releasing thread; the deleter     *)
(* object, and with it its reference to impl, goes when it has run.        *)
run_deleter(t) ==
    /\ ProcessLive
    /\ \E h \in handles :
        /\ Deleter(t) \in h.owners
        /\ LET st == RunDeleter([handles |-> handles, device |-> device_pools_,
                                 host |-> host_pools_, lastreq |-> lastreq],
                                buffers, h)
           IN /\ handles' = st.handles
              /\ device_pools_' = st.device
              /\ host_pools_' = st.host
              /\ lastreq' = st.lastreq
              /\ impl_' = ReleaseSelf(impl_, st.handles, t)
    /\ last_calls' = <<>>
    /\ UNCHANGED <<scope, textures, buffers, tasks, io_queue, timers>>

(* The last reference to the device object goes: ~device releases impl_.   *)
device_drop(t) ==
    /\ CanCall(t)
    /\ scope.orderly => (handles = {} /\ tasks = <<>>)
    /\ impl_' = ReleaseSelf([impl_ EXCEPT !.device = FALSE], handles, t)
    /\ last_calls' = <<>>
    /\ UNCHANGED <<scope, textures, buffers, device_pools_, host_pools_, handles,
                   tasks, io_queue, timers, lastreq>>

(* ---------------------------------------------------------------------- *)
(* Executor: dispatch_async / spawn_async and the tasks they run           *)
(* ---------------------------------------------------------------------- *)
FreeTask == CHOOSE i \in 1..(scope.tasks + 1) :
                i \notin DOMAIN tasks /\ \A j \in 1..(i - 1) : j \in DOMAIN tasks

WithTask(ts, id, task) == [i \in DOMAIN ts \cup {id} |-> IF i = id THEN task ELSE ts[i]]
WithoutTask(ts, id) == [i \in DOMAIN ts \ {id} |-> ts[i]]

NewTask(kind, bytes, shape, expect) ==
    [kind |-> kind, pc |-> "queued", bytes |-> bytes, shape |-> shape,
     fence |-> "none", fut |-> "pending", expect |-> expect]

ApiCall(thread, calls) ==
    [op |-> "api", thread |-> thread, req |-> <<>>, clear |-> FALSE, res |-> 0,
     hit |-> FALSE, prelen |-> 0, stale |-> 0, expect |-> 0, api |-> calls]

(* dispatch_async: boost::asio::dispatch from a client thread queues the   *)
(* packaged task; spawn_async: boost::asio::spawn queues the coroutine.    *)
Submit(task) ==
    /\ FreeTask <= scope.tasks
    /\ tasks' = WithTask(tasks, FreeTask, task)
    /\ io_queue' = Append(io_queue, FreeTask)

(* device::copy_async(bytes, ...) with a source that has no pooled storage *)
copy_async_bytes(t, shape, data) ==
    /\ CanCall(t)
    /\ Submit(NewTask("upload", <<shape[1] * shape[2] * shape[3], data>>, shape, <<>>))
    /\ last_calls' = <<>>
    /\ UNCHANGED <<scope, textures, buffers, device_pools_, host_pools_, handles,
                   timers, lastreq, impl_>>

(* device::copy_async(bytes, ...) with an array backed by a pooled buffer; *)
(* the task's copy of the source shares the buffer handle.                 *)
copy_async_array(t, h, shape) ==
    /\ CanCall(t)
    /\ h \in handles
    /\ h.kind = "buf"
    /\ Client(t) \in h.owners
    /\ buffers[h.res].size = shape[1] * shape[2] * shape[3]
    /\ FreeTask <= scope.tasks
    /\ handles' = (handles \ {h}) \cup {CopyView(h, TaskRef(FreeTask))}
    /\ Submit(NewTask("upload", <<>>, shape, <<>>))
    /\ last_calls' = <<>>
    /\ UNCHANGED <<scope, textures, buffers, device_pools_, host_pools_, timers,
                   lastreq, impl_>>

(* device::copy_async(texture): the task captures the source handle.       *)
copy_async_texture(t, h) ==
    /\ CanCall(t)
    /\ h \in handles
    /\ h.kind = "tex"
    /\ Client(t) \in h.owners
    /\ FreeTask <= scope.tasks
    /\ handles' = (handles \ {h}) \cup {CopySource(h, TaskRef(FreeTask))}
    /\ Submit(NewTask("download", <<>>, <<>>, h.uploaded))
    /\ last_calls' = <<>>
    /\ UNCHANGED <<scope, textures, buffers, device_pools_, host_pools_, timers,
                   lastreq, impl_>>

(* device::gc                                                              *)
gc(t) ==
    /\ CanCall(t)
    /\ Submit(NewTask("gc", <<>>, <<>>, <<>>))
    /\ last_calls' = <<>>
    /\ UNCHANGED <<scope, textures, buffers, device_pools_, host_pools_, handles,
                   timers, lastreq, impl_>>

(* ---------------------------------------------------------------------- *)
(* info                                                                    *)
(* ---------------------------------------------------------------------- *)
(* The keys of a table whose queue reports size() # 0.                     *)
Counted(map) == {k \in DOMAIN map : Len(map[k]) # 0}

(* pool_info of one queue of device_pools_[i][j]: the shape is taken from  *)
(* the index j and the key, the count is pool.second.size().               *)
DevicePoolInfo(k, q) ==
    LET j          == k[2]
        mipmapping == j > 3
        stride     == IF mipmapping THEN j - 3 ELSE j + 1
        width      == KeyWidth(k[3])
        height     == KeyHeight(k[3])
    IN [stride |-> stride, mipmapping |-> mipmapping, width |-> width,
        height |-> height, size |-> width * height * stride, count |-> Len(q)]

(* pool_info of one queue of host_pools_[i]                                *)
HostPoolInfo(k, q) ==
    [usage |-> IF k[1] = 1 THEN "write_only" ELSE "read_only",
     size |-> k[2], count |-> Len(q)]

(* The children added to a property tree, one pool_info per counted       *)
(* queue: a tree keeps equal children apart, so each child comes with the  *)
(* number of queues that produced it.                                      *)
Children(infos) ==
    [e \in {infos[k] : k \in DOMAIN infos} |->
        Cardinality({k \in DOMAIN infos : infos[k] = e})]

(* total += w[k] over the queues with keys in ks.                          *)
RECURSIVE Total(_, _)
Total(w, ks) ==
    IF ks = {} THEN 0
    ELSE LET k == CHOOSE x \in ks : TRUE
         IN w[k] + Total(w, ks \ {k})

(* count and size * count of every queue of a table                        *)
PoolCounts(map) == [k \in DOMAIN map |-> Len(map[k])]
DevicePoolSizes(map) ==
    [k \in DOMAIN map |-> DevicePoolInfo(k, map[k]).size * Len(map[k])]
HostPoolSizes(map) == [k \in DOMAIN map |-> k[2] * Len(map[k])]

CountedHostAny(map, write) == Counted(map)

(* The counted queues of host_pools_[1] (write) or host_pools_[0] (read).  *)
CountedHost(map, write) == {k \in Counted(map) : (k[1] = 1) = write}

(* The tree device::impl::info returns, without the child                  *)
(* gl.summary.all_host_buffers, which buffer::info() makes.                *)
Info(device, host) ==
    [pooled_device_buffers |->
        Children([k \in Counted(device) |-> DevicePoolInfo(k, device[k])]),
     pooled_host_buffers   |->
        Children([k \in Counted(host) |-> HostPoolInfo(k, host[k])]),
     device_total_count    |-> Total(PoolCounts(device), Counted(device)),
     device_total_size     |-> Total(DevicePoolSizes(device), Counted(device)),
     total_read_count      |-> Total(PoolCounts(host), CountedHost(host, FALSE)),
     total_write_count     |-> Total(PoolCounts(host), CountedHost(host, TRUE)),
     total_read_size       |-> Total(HostPoolSizes(host), CountedHost(host, FALSE)),
     total_write_size      |-> Total(HostPoolSizes(host), CountedHost(host, TRUE))]

TraverseByPop(map) == [k \in DOMAIN map |-> <<>>]

(* for (auto& pool : pools) with pool.second.size(): the traversal visits  *)
(* the queues the table holds and leaves the table and the queues as they  *)
(* are.                                                                    *)
Traverse(map) == map

InfoCall(thread, report) ==
    [op |-> "info", thread |-> thread, req |-> <<>>, clear |-> FALSE, res |-> 0,
     hit |-> FALSE, prelen |-> 0, stale |-> 0, expect |-> 0, api |-> {},
     report |-> report]

(* device::info, on the calling thread.                                    *)
info(t) ==
    /\ CanCall(t)
    /\ last_calls' = <<InfoCall(t, Info(device_pools_, host_pools_))>>
    /\ device_pools_' = Traverse(device_pools_)
    /\ host_pools_' = Traverse(host_pools_)
    /\ UNCHANGED <<scope, textures, buffers, handles, tasks, io_queue, timers,
                   lastreq, impl_>>

(* std::packaged_task: the value the function returns, or the exception it *)
(* throws, is stored in the shared state and makes the future ready. When  *)
(* the future is gone already the shared state goes with the task.         *)
SetValue(ts, id) ==
    IF ts[id].fut = "dropped" THEN WithoutTask(ts, id)
    ELSE [ts EXCEPT ![id].pc = "done", ![id].fut = "ready"]

SetExceptionLost(ts, id) == [ts EXCEPT ![id].pc = "done"]

SetException(ts, id) ==
    IF ts[id].fut = "dropped" THEN WithoutTask(ts, id)
    ELSE [ts EXCEPT ![id].pc = "done", ![id].fut = "error"]

(* A device-API call that throws.                                          *)
FailureCall(point) ==
    [op |-> "failure", thread |-> Executor, req |-> <<>>, clear |-> FALSE, res |-> 0,
     hit |-> FALSE, prelen |-> 0, stale |-> 0, expect |-> 0, api |-> {point}]

(* The faults that may strike in a step that makes the calls in points.    *)
FaultsAt(points) == {"none"} \cup (scope.faults \cap points)

(* The pools, handles and objects as one record, while a task body runs.   *)
Now ==
    [textures |-> textures, buffers |-> buffers, handles |-> handles,
     device |-> device_pools_, host |-> host_pools_, lastreq |-> lastreq]

(* The record o with the handles, queues and requests of st.               *)
WithRefs(o, st) ==
    [o EXCEPT !.handles = st.handles, !.device = st.device,
              !.host = st.host, !.lastreq = st.lastreq]

(* A reference dropped by the executor thread inside a task body.          *)
Drop(o, h, owner) ==
    WithRefs(o, DropRef([handles |-> o.handles, device |-> o.device,
                         host |-> o.host, lastreq |-> o.lastreq],
                        o.buffers, h, owner))

(* Releasing the objects a cleared queue held: they are destroyed.         *)
Destroy(objs, ids) ==
    [i \in DOMAIN objs |->
        IF i \in ids THEN [objs[i] EXCEPT !.alive = FALSE, !.content = 0] ELSE objs[i]]

(* A request that returned nothing is no longer the latest request of its  *)
(* key.                                                                    *)
ForgetRequest(lr, kind, key) == {e \in lr : ~(e.kind = kind /\ e.key = key)}

(* The state a task body leaves behind, and how the body ended: "value",   *)
(* "exception", "abort" (failed CASPAR_VERIFY) or "suspend".               *)
Leave(id, o, calls, end, ts) ==
    /\ Len(o.textures) <= MaxTex
    /\ Len(o.buffers) <= scope.buffers
    /\ textures' = o.textures
    /\ buffers' = o.buffers
    /\ handles' = o.handles
    /\ device_pools_' = o.device
    /\ host_pools_' = o.host
    /\ lastreq' = o.lastreq
    /\ last_calls' = calls
    /\ tasks' = CASE end = "value" -> SetValue(ts, id)
                  [] end = "exception" -> SetException(ts, id)
                  [] OTHER -> ts
    /\ impl_' = IF end = "abort" THEN VerifyFailed(impl_)
                ELSE ReleaseSelf(impl_, o.handles, Executor)

(* The result h of a task is moved into the shared state; when the future *)
(* is gone already the shared state, and the result in it, goes at once.   *)
Deliver(id, o, h) ==
    IF tasks[id].fut = "dropped" THEN Drop(o, h, FutureRef(id)) ELSE o

(* Upload, after create_texture returned ct: tex->copy_from(buf); return   *)
(* tex. bh is the staging buffer, o1 the state and c1 the calls so far.    *)
UploadInto(id, task, o1, c1, bh, ct, fault) ==
    LET buf == o1.buffers[bh.res]
        th  == NewHandle("tex", ct.res, ct.pool, FutureRef(id),
                         <<task.shape[1] * task.shape[2] * task.shape[3], buf.content>>)
    IN IF fault = "createImage"
       THEN \* the allocation after a missed try_pop throws
            /\ ~ct.call.hit
            /\ Leave(id, Drop([o1 EXCEPT
                                  !.device = ct.pools,
                                  !.lastreq = ForgetRequest(@, "tex", ct.pool)],
                              bh, TaskRef(id)),
                     c1 \o <<FailureCall(fault)>>, "exception", tasks)
       ELSE Leave(id,
                  Deliver(id,
                      Drop([o1 EXCEPT !.handles = @ \cup {th},
                                      !.device = ct.pools,
                                      !.lastreq = ct.lastreq,
                                      !.textures = [ct.textures EXCEPT ![ct.res] =
                                            TextureCopyFrom(ct.textures[ct.res], buf)]],
                           bh, TaskRef(id)),
                      th),
                  c1 \o <<ct.call, ApiCall(Executor, {"copy_from"})>>,
                  "value", tasks)

(* Upload, once the source bytes are in the buffer behind bh:              *)
(* create_texture(width, height, stride, depth, false).                    *)
UploadFrom(id, task, o1, c1, bh, undef, fault) ==
    IF ~ValidTexture(task.shape[1], task.shape[2], task.shape[3])
    THEN /\ fault = "none"
         /\ Leave(id, o1, c1 \o <<VerifyCall(Executor, task.shape)>>, "abort", tasks)
    ELSE UploadInto(id, task, o1, c1, bh,
                    CreateTexture(device_pools_, textures, o1.lastreq, Executor,
                                  task.shape[1], task.shape[2], task.shape[3],
                                  task.shape[4], FALSE, undef),
                    fault)

(* Upload of bytes, after create_buffer popped or allocated the buffer of  *)
(* cb: the handle is made and the bytes are copied into the buffer.        *)
UploadStaged(id, task, cb, undef, fault) ==
    IF impl_.phase # "running"
    THEN \* self = shared_from_this() throws std::bad_weak_ptr inside ~impl;
         \* the buffer moved into the deleter goes with it
         /\ fault = "none"
         /\ Leave(id, [Now EXCEPT !.host = cb.pools,
                                  !.lastreq = ForgetRequest(lastreq, "buf", cb.pool),
                                  !.buffers = Destroy(cb.buffers, {cb.res})],
                  <<cb.call, ApiCall(Executor, {"destroy"})>>,
                  "exception", tasks)
    ELSE \* std::memcpy(buf->data(), source.data(), source.size())
         UploadFrom(id, task,
                    [Now EXCEPT !.handles = @ \cup {NewHandle("buf", cb.res, cb.pool,
                                                              TaskRef(id), <<>>)},
                                !.host = cb.pools,
                                !.lastreq = cb.lastreq,
                                !.buffers = [cb.buffers EXCEPT
                                                ![cb.res].content = task.bytes[2]]],
                    <<cb.call>>,
                    NewHandle("buf", cb.res, cb.pool, TaskRef(id), <<>>),
                    undef, fault)

SourceStorageAny(hs, id) == {h \in hs : h.kind = "buf"}

(* source.storage<std::shared_ptr<buffer>>(): the pooled buffer handle the *)
(* task's copy of the source view shares, if the view has one.             *)
SourceStorage(hs, id) == Held(hs, TaskRef(id), "buf")

(* The body of the upload task, run by the executor thread.                *)
run_upload(id) ==
    /\ tasks[id].kind = "upload"
    /\ UNCHANGED timers
    /\ \E undefb, undeft \in scope.data, fault \in FaultsAt({"createImage"}) :
         IF SourceStorage(handles, id) # {}
         THEN UploadFrom(id, tasks[id], Now, <<>>,
                         CHOOSE h \in SourceStorage(handles, id) : TRUE, undeft, fault)
         ELSE IF ~ValidBuffer(tasks[id].bytes[1])
         THEN \* CASPAR_VERIFY(size > 0) in create_buffer
              /\ fault = "none"
              /\ Leave(id, Now, <<VerifyCall(Executor, <<tasks[id].bytes[1], TRUE>>)>>,
                       "abort", tasks)
         ELSE UploadStaged(id, tasks[id],
                           CreateBuffer(host_pools_, buffers, lastreq, Executor,
                                        tasks[id].bytes[1], TRUE, undefb),
                           undeft, fault)

ExecNeverBlocked == FALSE

(* The executor thread is inside queue.waitIdle() of a download.           *)
ExecBlocked == \E id \in DOMAIN tasks : tasks[id].pc = "waitIdle"

(* Download, after create_buffer returned the buffer behind bh:            *)
(* source->copy_to(buf), then the fence and submitSingleTimeCommands. o1   *)
(* is the state after the copy was recorded, src the source texture.       *)
DownloadSubmit(id, src, bh, call, o1, fault) ==
    CASE fault = "createFence" ->
            \* an exception unwinds buf, then the coroutine's copy of source
            Leave(id, Drop(Drop(o1, bh, TaskRef(id)), src, TaskRef(id)),
                  <<call, FailureCall(fault)>>, "exception", tasks)
      [] fault = "submit" ->
            Leave(id, Drop(Drop(o1, bh, TaskRef(id)), src, TaskRef(id)),
                  <<call, ApiCall(Executor, {"copy_to", "createFence"}),
                    FailureCall(fault)>>,
                  "exception", [tasks EXCEPT ![id].fence = "unsignaled"])
      [] OTHER ->
            \* queue.submit(submitInfo, fence); queue.waitIdle()
            Leave(id, o1,
                  <<call, ApiCall(Executor, {"copy_to", "createFence",
                          "allocateCommandBuffers", "submit", "waitIdle"})>>,
                  "suspend",
                  [tasks EXCEPT ![id].pc = "waitIdle", ![id].fence = "unsignaled"])

(* Download of the texture behind src into the buffer of cb;               *)
(* copyImageToBuffer2 writes the image into the buffer.                    *)
DownloadInto(id, src, tex, cb, fault) ==
    DownloadSubmit(id, src, NewHandle("buf", cb.res, cb.pool, TaskRef(id), <<>>),
                   cb.call,
                   [Now EXCEPT !.handles = @ \cup {NewHandle("buf", cb.res, cb.pool,
                                                             TaskRef(id), <<>>)},
                               !.host = cb.pools,
                               !.lastreq = cb.lastreq,
                               !.buffers = [cb.buffers EXCEPT ![cb.res] =
                                                TextureCopyTo(tex, cb.buffers[cb.res])]],
                   fault)

(* Download task, from its start to queue.waitIdle() in                    *)
(* submitSingleTimeCommands.                                               *)
run_download_start(id) ==
    /\ tasks[id].kind = "download"
    /\ tasks[id].pc = "queued"
    /\ UNCHANGED timers
    /\ \E undef \in scope.data, fault \in FaultsAt({"createFence", "submit"}) :
        LET src == TheHeld(handles, TaskRef(id), "tex")
        IN DownloadInto(id, src, textures[src.res],
                        CreateBuffer(host_pools_, buffers, lastreq, Executor,
                                     TextureSize(textures[src.res]), FALSE, undef),
                        fault)

queue_idle_ready(id) ==
    /\ ProcessLive
    /\ tasks[id].pc = "waitIdle"
    /\ tasks' = [tasks EXCEPT ![id].pc = "waiting", ![id].fence = "signaled"]
    /\ io_queue' = Append(io_queue, id)
    /\ last_calls' = <<ApiCall(Executor, {"freeCommandBuffers"})>>
    /\ UNCHANGED <<scope, textures, buffers, device_pools_, host_pools_, handles,
                   timers, lastreq, impl_>>

(* The device finishes the submitted copy: the fence is signaled and       *)
(* queue.waitIdle() returns; the task arms its timer and suspends.         *)
queue_idle(id) ==
    /\ ProcessLive
    /\ tasks[id].pc = "waitIdle"
    /\ tasks' = [tasks EXCEPT ![id].pc = "waiting", ![id].fence = "signaled"]
    /\ timers' = timers \cup {id}
    /\ last_calls' = <<ApiCall(Executor, {"freeCommandBuffers"})>>
    /\ UNCHANGED <<scope, textures, buffers, device_pools_, host_pools_, handles,
                   io_queue, lastreq, impl_>>

(* One fence test of the download that holds the buffer bh and the source  *)
(* texture src.                                                            *)
DownloadPoll(id, bh, src, fault) ==
    CASE fault = "waitForFences" ->
            /\ Leave(id, Drop(Drop(Now, bh, TaskRef(id)), src, TaskRef(id)),
                     <<FailureCall(fault)>>, "exception", tasks)
            /\ UNCHANGED timers
      [] fault = "none" /\ tasks[id].fence = "signaled" ->
            \* array<const uint8_t>(ptr, size, std::move(buf))
            /\ Leave(id,
                     Deliver(id,
                         Drop([Now EXCEPT !.handles = (@ \ {bh}) \cup
                                    {[bh EXCEPT !.owners = {FutureRef(id)}]}],
                              src, TaskRef(id)),
                         [bh EXCEPT !.owners = {FutureRef(id)}]),
                     <<ApiCall(Executor, {"waitForFences", "destroyFence"})>>,
                     "value", [tasks EXCEPT ![id].fence = "destroyed"])
            /\ UNCHANGED timers
      [] OTHER ->
            /\ Leave(id, Now, <<ApiCall(Executor, {"waitForFences"})>>,
                     "suspend", tasks)
            /\ timers' = timers \cup {id}

(* Download task, resumed after the timer fired.                           *)
run_download_poll(id) ==
    /\ tasks[id].kind = "download"
    /\ tasks[id].pc = "waiting"
    /\ \E fault \in FaultsAt({"waitForFences"}) :
        DownloadPoll(id, TheHeld(handles, TaskRef(id), "buf"),
                     TheHeld(handles, TaskRef(id), "tex"), fault)

(* The keys of a table whose queue holds something.                        *)
NonEmpty(map) == {k \in DOMAIN map : map[k] # <<>>}

(* A table whose loop of clear() calls stopped in queue k, when the        *)
(* release of its entry j threw: the queues in done were cleared before,   *)
(* the entries of k up to j are gone, everything else is still idle.       *)
ClearUntil(map, k, j, done) ==
    [x \in DOMAIN map |->
        IF x = k THEN SubSeq(map[x], j + 1, Len(map[x]))
        ELSE IF x \in done THEN <<>> ELSE map[x]]

(* gc calls clear() on a queue with no lock while the deleter of a pooled  *)
(* handle, on a client thread, is inside push() on the same queue.         *)
(* clear() of concurrent_bounded_queue is not safe against a concurrent    *)
(* push: besides the two orders of clear and push, the pushed entry can be *)
(* dropped without being released ("lost": the counters are reset over     *)
(* it), or stay in the queue after clear released it ("dangling").         *)
RaceOutcomes == {"lost", "dangling"}

(* The handles, tables and requests after gc cleared every queue while the *)
(* deleter of h pushed, with the given outcome for the pushed entry.       *)
ClearRaced(st, bufs, h, outcome) ==
    LET st1 == RunDeleter([st EXCEPT !.device = ClearAll(@), !.host = ClearAll(@),
                                     !.lastreq = {}], bufs, h)
    IN IF outcome = "lost"
       THEN [st1 EXCEPT !.device = ClearAll(@), !.host = ClearAll(@)]
       ELSE st1

(* The resources released by a gc that raced with the deleter of h.        *)
RacedDead(idle, h, kind, outcome) ==
    idle \cup (IF outcome = "dangling" /\ h.kind = kind THEN {h.res} ELSE {})

(* The gc task whose clear() calls take effect at one instant each.        *)
gc_clear(id) ==
    /\ \E fault \in FaultsAt({"release"}) :
        IF fault = "none"
        THEN /\ device_pools_' = ClearAll(device_pools_)
             /\ host_pools_' = ClearAll(host_pools_)
             /\ last_calls' = <<ApiCall(Executor, {"destroy"})>>
        ELSE /\ \E tab \in {"device", "host"} :
                LET map == IF tab = "device" THEN device_pools_ ELSE host_pools_
                IN \E k \in NonEmpty(map) :
                     \E j \in 1..Len(map[k]), done \in SUBSET (NonEmpty(map) \ {k}) :
                        /\ device_pools_' = IF tab = "device"
                                            THEN ClearUntil(map, k, j, done)
                                            ELSE ClearAll(device_pools_)
                        /\ host_pools_' = IF tab = "device" THEN host_pools_
                                          ELSE ClearUntil(map, k, j, done)
             \* catch (...) { CASPAR_LOG_CURRENT_EXCEPTION(); }
             /\ last_calls' = <<ApiCall(Executor, {"destroy"}), FailureCall(fault)>>
    /\ textures' = Destroy(textures, Idle(device_pools_) \ Idle(device_pools_'))
    /\ buffers' = Destroy(buffers, Idle(host_pools_) \ Idle(host_pools_'))
    /\ lastreq' = {}
    /\ UNCHANGED <<handles, impl_>>

(* The gc task whose clear() overlaps the push of the deleter that thread  *)
(* t is running.                                                           *)
gc_race(id) ==
    \E t \in scope.threads, h \in handles, outcome \in RaceOutcomes :
        /\ h.owners = {Deleter(t)}
        /\ LET st == ClearRaced([handles |-> handles, device |-> device_pools_,
                                 host |-> host_pools_, lastreq |-> lastreq],
                                buffers, h, outcome)
           IN /\ handles' = st.handles
              /\ device_pools_' = st.device
              /\ host_pools_' = st.host
              /\ lastreq' = st.lastreq
              /\ impl_' = ReleaseSelf(impl_, st.handles, t)
        /\ textures' = Destroy(textures, RacedDead(Idle(device_pools_), h, "tex", outcome))
        /\ buffers' = Destroy(buffers, RacedDead(Idle(host_pools_), h, "buf", outcome))
        /\ last_calls' = <<ApiCall(Executor, {"destroy"})>>

(* The body of the gc task: clear() on every queue of the device tables,   *)
(* then of the host tables, inside one try block.                          *)
run_gc(id) ==
    /\ tasks[id].kind = "gc"
    /\ gc_clear(id) \/ (scope.race /\ gc_race(id))
    /\ tasks' = SetValue(tasks, id)
    /\ UNCHANGED timers

(* io_context_.run(): the executor thread takes the next ready handler.    *)
exec_run ==
    /\ ProcessLive
    /\ ~ExecBlocked
    /\ io_queue # <<>>
    /\ io_queue' = Tail(io_queue)
    /\ LET id == Head(io_queue)
       IN \/ run_upload(id)
          \/ run_download_start(id)
          \/ run_download_poll(id)
          \/ run_gc(id)
    /\ UNCHANGED scope

(* The deadline_timer of a suspended download expires: its resumption is   *)
(* queued on the io_context.                                               *)
timer_fire(id) ==
    /\ ProcessLive
    /\ id \in timers
    /\ timers' = timers \ {id}
    /\ io_queue' = Append(io_queue, id)
    /\ last_calls' = <<>>
    /\ UNCHANGED <<scope, textures, buffers, device_pools_, host_pools_, handles,
                   tasks, lastreq, impl_>>

(* future.get() by a client: the result moves to the caller, a stored      *)
(* exception is thrown again in the caller.                                *)
future_get(t, id) ==
    /\ CanRun(t)
    /\ id \in DOMAIN tasks
    /\ tasks[id].fut \in {"ready", "error"}
    /\ handles' = {IF FutureRef(id) \in h.owners
                   THEN [h EXCEPT !.owners = {Client(t)}] ELSE h : h \in handles}
    /\ tasks' = WithoutTask(tasks, id)
    /\ last_calls' = <<>>
    /\ UNCHANGED <<scope, textures, buffers, device_pools_, host_pools_,
                   io_queue, timers, lastreq, impl_>>

(* A client destroys a future without get(). A result that is stored goes  *)
(* with it, on the client's thread; a task that has not finished keeps the *)
(* shared state and runs on.                                               *)
future_drop(t, id) ==
    /\ CanRun(t)
    /\ id \in DOMAIN tasks
    /\ tasks[id].fut \in scope.drop
    /\ handles' = {IF FutureRef(id) \in h.owners
                   THEN [h EXCEPT !.owners = {Deleter(t)}] ELSE h : h \in handles}
    /\ tasks' = IF tasks[id].fut = "pending"
                THEN [tasks EXCEPT ![id].fut = "dropped"]
                ELSE WithoutTask(tasks, id)
    /\ last_calls' = <<>>
    /\ UNCHANGED <<scope, textures, buffers, device_pools_, host_pools_,
                   io_queue, timers, lastreq, impl_>>

RunStopped == TRUE

(* io_context_.run() returns, and the executor thread ends, when work_ has *)
(* been reset and neither a ready handler nor a pending wait is left.      *)
RunReturns == io_queue = <<>> /\ timers = {} /\ ~ExecBlocked

(* ~impl with the pool loops placed before thread_.join(): the tables are  *)
(* cleared while the executor may still run handlers.                      *)
clear_before_join(t) ==
    /\ impl_.phase = "joining"
    /\ impl_.thread = t
    /\ Idle(device_pools_) \cup Idle(host_pools_) # {}
    /\ host_pools_' = ClearAll(host_pools_)
    /\ device_pools_' = ClearAll(device_pools_)
    /\ textures' = Destroy(textures, Idle(device_pools_))
    /\ buffers' = Destroy(buffers, Idle(host_pools_))
    /\ lastreq' = {}
    /\ last_calls' = <<ApiCall(t, {"destroy"})>>
    /\ UNCHANGED <<scope, handles, tasks, io_queue, timers, impl_>>

(* ~impl after thread_.join() returned: the pool tables are cleared.       *)
join_return(t) ==
    /\ impl_.phase = "joining"
    /\ impl_.thread = t
    /\ RunReturns
    /\ host_pools_' = ClearAll(host_pools_)
    /\ device_pools_' = ClearAll(device_pools_)
    /\ textures' = Destroy(textures, Idle(device_pools_) \ Idle(device_pools_'))
    /\ buffers' = Destroy(buffers, Idle(host_pools_) \ Idle(host_pools_'))
    /\ impl_' = [impl_ EXCEPT !.phase = "destroyed"]
    /\ lastreq' = {}
    /\ last_calls' = IF Idle(device_pools_) \cup Idle(host_pools_) = {} THEN <<>>
                     ELSE <<ApiCall(t, {"destroy"})>>
    /\ UNCHANGED <<scope, handles, tasks, io_queue, timers>>

(* ---------------------------------------------------------------------- *)
(* Specification                                                           *)
(* ---------------------------------------------------------------------- *)
Next ==
    \/ \E t \in scope.threads, sh \in scope.shapes :
            create_texture(t, sh[1], sh[2], sh[3], sh[4])
    \/ \E t \in scope.threads, size \in ArraySizes : create_array(t, size)
    \/ \E t \in scope.threads, h \in handles : release(t, h)
    \/ \E t \in scope.threads : run_deleter(t)
    \/ \E t \in scope.threads, sh \in scope.shapes, data \in scope.data :
            copy_async_bytes(t, sh, data)
    \/ \E t \in scope.threads, h \in handles, sh \in scope.shapes :
            copy_async_array(t, h, sh)
    \/ \E t \in scope.threads, h \in handles : copy_async_texture(t, h)
    \/ \E t \in scope.threads : gc(t)
    \/ \E t \in scope.threads : info(t)
    \/ exec_run
    \/ \E id \in DOMAIN tasks : queue_idle(id)
    \/ \E id \in DOMAIN tasks : timer_fire(id)
    \/ \E t \in scope.threads, id \in DOMAIN tasks : future_get(t, id)
    \/ \E t \in scope.threads, id \in DOMAIN tasks : future_drop(t, id)
    \/ \E t \in scope.threads : device_drop(t)
    \/ \E t \in scope.threads : join_return(t)

Spec == Init /\ [][Next]_vars

SpecData == InitData /\ [][Next]_vars

SpecExec == InitExec /\ [][Next]_vars

SpecFault == InitFault /\ [][Next]_vars

SpecRace == InitRace /\ [][Next]_vars

(* ---------------------------------------------------------------------- *)
(* Properties                                                              *)
(* ---------------------------------------------------------------------- *)
Calls == {last_calls[i] : i \in 1..Len(last_calls)}

(* Number of places of a table where resource r is idle.                   *)
IdleCount(map, r) ==
    Cardinality(UNION {{<<k, i>> : i \in {j \in 1..Len(map[k]) : map[k][j] = r}}
                          : k \in DOMAIN map})

(* Number of pooled handles through which resource r is checked out.       *)
HandleCount(kind, r) == Cardinality({h \in handles : h.kind = kind /\ h.res = r})

(* C1: every texture and buffer that still exists is either checked out    *)
(* through exactly one pooled handle or idle exactly once in exactly one   *)
(* pool queue, never both and never twice.                                 *)
C1_OneState ==
    /\ \A r \in 1..Len(textures) :
          textures[r].alive =>
              HandleCount("tex", r) + IdleCount(device_pools_, r) = 1
    /\ \A r \in 1..Len(buffers) :
          buffers[r].alive =>
              HandleCount("buf", r) + IdleCount(host_pools_, r) = 1

C1_Witness ==
    /\ Idle(host_pools_) # {}
    /\ \E h \in handles : h.kind = "tex" /\ Client(2) \in h.owners
    /\ \E id \in DOMAIN tasks :
          /\ tasks[id].kind = "download" /\ tasks[id].fut = "ready"
          /\ Held(handles, FutureRef(id), "buf") # {}

(* C2: two handles that are checked out at the same time are backed by     *)
(* distinct resources, whichever threads asked for them.                   *)
C2_NoAliasing ==
    \A h1, h2 \in handles :
        (h1 # h2 /\ h1.kind = h2.kind) => h1.res # h2.res

C2_Witness ==
    \E h1, h2 \in handles :
        /\ h1.kind = "buf" /\ h2.kind = "buf"
        /\ Client(1) \in h1.owners /\ Client(2) \in h2.owners
        /\ DeleterPool(buffers, h1) = DeleterPool(buffers, h2)
        /\ h1.res # h2.res

(* C3 as stated: a request for key K that follows the full release of the  *)
(* resource the previous request for K returned (no gc, no other request   *)
(* for K in between) returns that same resource without allocating.        *)
C3_ReuseSame ==
    \A c \in Calls : c.expect # 0 => (c.hit /\ c.res = c.expect)

(* C3 amended: such a request never allocates; it returns the resource at  *)
(* the head of the queue of K, which is the released resource when that    *)
(* was the only idle resource of key K.                                    *)
C3_ReuseHead ==
    \A c \in Calls :
        c.expect # 0 => (c.hit /\ (c.prelen = 1 => c.res = c.expect))

C3_Witness ==
    \E c \in Calls : c.expect # 0 /\ c.hit /\ c.prelen = 1 /\ c.res = c.expect

(* C4: a gc step destroys exactly the resources that were idle, leaves     *)
(* every checked-out resource alive behind its handle and all queues       *)
(* empty; no destroyed resource is ever idle or checked out again, so      *)
(* handles released after the gc are the only entries of their queues.     *)
GcStep ==
    /\ io_queue # <<>>
    /\ tasks[Head(io_queue)].kind = "gc"
    /\ io_queue' = Tail(io_queue)

GcEffect ==
    /\ \A r \in 1..Len(textures) :
          textures'[r].alive = (textures[r].alive /\ r \notin Idle(device_pools_))
    /\ \A r \in 1..Len(buffers) :
          buffers'[r].alive = (buffers[r].alive /\ r \notin Idle(host_pools_))
    /\ handles' = handles
    /\ Idle(device_pools_') = {} /\ Idle(host_pools_') = {}

NoDeadInUse ==
    /\ \A r \in 1..Len(textures) :
          ~textures[r].alive =>
              HandleCount("tex", r) + IdleCount(device_pools_, r) = 0
    /\ \A r \in 1..Len(buffers) :
          ~buffers[r].alive =>
              HandleCount("buf", r) + IdleCount(host_pools_, r) = 0

C4_GcSafety == [][(GcStep => GcEffect) /\ NoDeadInUse']_vars

C4_Witness ==
    /\ \E r \in 1..Len(buffers) : ~buffers[r].alive
    /\ \E r \in 1..Len(buffers) : buffers[r].alive /\ r \in Idle(host_pools_)

(* C5: when several threads run the deleters of handles of one key at the  *)
(* same time, each deleter adds its resource exactly once to the queue of  *)
(* that key, keeps every entry already there, and leaves the handles the   *)
(* other threads are still releasing untouched.                            *)
DeleterStep(t) == Busy(t) /\ ~Busy(t)'

C5_ConcurrentRelease ==
    [][\A t \in Threads :
        DeleterStep(t) =>
            LET h    == TheHeld(handles, Deleter(t), "buf")
                tex  == Held(handles, Deleter(t), "buf") = {}
                pool == DeleterPool(buffers, h)
                q    == QueueAt(host_pools_, pool)
                q2   == QueueAt(host_pools_', pool)
            IN tex \/ (/\ Len(q2) = Len(q) + 1
                       /\ \A i \in 1..Len(q) : q2[i] = q[i]
                       /\ Occurrences(q2, h.res) = 1
                       /\ \A u \in Threads \ {t} :
                            Held(handles', Deleter(u), "buf") = Held(handles, Deleter(u), "buf"))
      ]_vars

C5_Witness ==
    \E h1, h2 \in handles :
        /\ h1.kind = "buf" /\ h2.kind = "buf"
        /\ Deleter(1) \in h1.owners /\ Deleter(2) \in h2.owners
        /\ DeleterPool(buffers, h1) = DeleterPool(buffers, h2)

(* C6: every graphics-API call is issued on the executor thread.           *)
C6_ExecutorOnly ==
    \A c \in Calls : c.api # {} => c.thread = Executor

(* C7: create_buffer(size, write) hands out a buffer of exactly that size  *)
(* and direction.                                                          *)
C7_ExactBuffer ==
    \A c \in Calls :
        c.op = "create_buffer" =>
            (buffers[c.res].size = c.req[1] /\ buffers[c.res].write = c.req[2])

C7_Witness ==
    \E c \in Calls :
        /\ c.op = "create_buffer" /\ ~c.hit
        /\ \E r \in Idle(host_pools_) :
              buffers[r].size = c.req[1] /\ buffers[r].write # c.req[2]

(* C8: the packed key is distinct for distinct accepted (width, height),   *)
(* so create_texture returns a texture of the requested width and height.  *)
C8_ExactTexture ==
    \A c \in Calls :
        c.op = "create_texture" =>
            /\ textures[c.res].width = c.req[1]
            /\ textures[c.res].height = c.req[2]

(* C9: a texture handed out by the public create_texture is all zero,      *)
(* freshly allocated or recycled.                                          *)
C9_ClearContract ==
    \A c \in Calls :
        (c.op = "create_texture" /\ c.thread \in Threads) =>
            textures[c.res].content = 0

C9_Witness ==
    \E c \in Calls :
        /\ c.op = "create_texture" /\ c.thread \in Threads
        /\ c.hit /\ c.stale # 0

(* C10: the bytes a download returns equal the bytes that were uploaded    *)
(* to the texture.                                                         *)
C10_RoundTrip ==
    \A id \in DOMAIN tasks :
        (tasks[id].kind = "download" /\ tasks[id].fut = "ready"
            /\ tasks[id].expect # <<>>) =>
            LET v == TheHeld(handles, FutureRef(id), "buf")
            IN <<buffers[v.res].size, buffers[v.res].content>> = tasks[id].expect

(* C11: when the last reference to a pooled handle is dropped, its deleter *)
(* appends the resource to the queue of the key the handle was acquired    *)
(* under; every other queue of both tables and every texture and buffer    *)
(* object stays as it was.                                                 *)
ReleasedTo(map, map2, key, r) ==
    /\ QueueAt(map2, key) = Append(QueueAt(map, key), r)
    /\ \A k \in (DOMAIN map \cup DOMAIN map2) \ {key} :
          QueueAt(map2, k) = QueueAt(map, k)

C11_ReleaseToOriginalKey ==
    [][\A t \in Threads :
        DeleterStep(t) =>
            LET h == CHOOSE x \in handles : Deleter(t) \in x.owners
            IN /\ IF h.kind = "tex"
                  THEN /\ ReleasedTo(device_pools_, device_pools_', h.pool, h.res)
                       /\ host_pools_' = host_pools_
                  ELSE /\ ReleasedTo(host_pools_, host_pools_', h.pool, h.res)
                       /\ device_pools_' = device_pools_
               /\ textures' = textures
               /\ buffers' = buffers
      ]_vars

C11_Witness ==
    \E e \in lastreq :
        /\ e.kind = "buf" /\ e.released
        /\ e.res \in Range(QueueAt(host_pools_, e.key))
        /\ \E k \in DOMAIN host_pools_ : k # e.key /\ host_pools_[k] # <<>>

(* The executor thread runs a step of task id in this transition.          *)
ExecStep(id) ==
    /\ io_queue # <<>>
    /\ Head(io_queue) = id
    /\ io_queue' = Tail(io_queue)
    /\ ~ExecBlocked

(* A device-API call of point set points threw in this transition.         *)
Failed(points) ==
    \E i \in 1..Len(last_calls') :
        last_calls'[i].op = "failure" /\ last_calls'[i].api \subseteq points

(* C12: when createImage, createFence, the queue submission or             *)
(* waitForFences throws inside an upload or a download task whose future   *)
(* the client still holds, the same step makes that future ready with the  *)
(* error: the task is finished, is not queued again and has no timer.      *)
C12_FailurePropagates ==
    [][\A id \in DOMAIN tasks :
        (/\ ExecStep(id)
         /\ tasks[id].kind \in {"upload", "download"}
         /\ tasks[id].fut = "pending"
         /\ Failed({"createImage", "createFence", "submit", "waitForFences"}))
        => /\ id \in DOMAIN tasks'
           /\ tasks'[id].fut = "error"
           /\ tasks'[id].pc = "done"
           /\ id \notin timers'
           /\ id \notin Range(io_queue')
      ]_vars

C12_Witness ==
    \E id \in DOMAIN tasks :
        /\ tasks[id].kind = "download"
        /\ tasks[id].fut = "error"
        /\ \E c \in Calls : c.op = "failure" /\ c.api = {"waitForFences"}

(* C13: when the gc task has run, also when the release of an idle entry   *)
(* threw during it, every queue of the device tables and of the host       *)
(* tables is empty and the future of gc is ready without an error.         *)
C13_GcIsolatesErrors ==
    [][\A id \in DOMAIN tasks :
        (ExecStep(id) /\ tasks[id].kind = "gc" /\ tasks[id].fut = "pending")
        => /\ tasks'[id].fut = "ready"
           /\ Idle(device_pools_') = {}
           /\ Idle(host_pools_') = {}
      ]_vars

(* C14: while a download has submitted its copy and its fence is not yet   *)
(* signaled, the executor thread is free: a handler that is ready in the   *)
(* io_context is not kept waiting for the fence.                           *)
C14_NoStarvation ==
    \A d \in DOMAIN tasks :
        (/\ ProcessLive
         /\ tasks[d].kind = "download"
         /\ tasks[d].pc # "done"
         /\ tasks[d].fence = "unsignaled"
         /\ io_queue # <<>>)
        => ~ExecBlocked

(* C15: as long as the fence of a submitted download is not signaled the   *)
(* task is in its poll loop: its timer is armed or its next fence test is  *)
(* ready on the executor, so that it re-arms the timer again and again     *)
(* and its future stays pending.                                           *)
C15_PollsUntilSignaled ==
    \A d \in DOMAIN tasks :
        (/\ ProcessLive
         /\ tasks[d].kind = "download"
         /\ tasks[d].pc # "done"
         /\ tasks[d].fence = "unsignaled")
        => /\ tasks[d].fut \in {"pending", "dropped"}
           /\ d \in timers \/ d \in Range(io_queue)

(* No task is unfinished: none is ready in the io_context, waits for its   *)
(* timer or is inside a device call.                                       *)
Drained ==
    /\ io_queue = <<>>
    /\ timers = {}
    /\ \A id \in DOMAIN tasks : tasks[id].pc = "done"

C17_NoCancellation ==
    \A id \in DOMAIN tasks :
        tasks[id].pc # "done"
        => /\ ProcessLive
           /\ Occurrences(io_queue, id) + (IF id \in timers THEN 1 ELSE 0)
                + (IF tasks[id].pc = "waitIdle" THEN 1 ELSE 0) = 1

(* The buffers behind the byte views and staging handles of hs.            *)
BufHeld(hs) == {h.res : h \in {x \in hs : x.kind = "buf"}}

(* Every buffer behind a view with a living copy is idle in no queue and   *)
(* is behind no second handle.                                             *)
ViewCheckedOut ==
    \A h \in handles :
        h.kind = "buf" => h.res \notin Idle(host_pools_) /\ HandleCount("buf", h.res) = 1

(* C18: the buffer behind a byte view stays checked out while any copy of  *)
(* the view is alive, before and after every step, and in the step in      *)
(* which its last copy goes it is in the queue of its size and direction.  *)
C18_ViewLifetime ==
    [][/\ ViewCheckedOut
       /\ ViewCheckedOut'
       /\ \A r \in BufHeld(handles) \ BufHeld(handles') :
             r \in Range(QueueAt(host_pools_', HostPool(buffers[r].size, buffers[r].write)))
      ]_vars

C18_Witness ==
    /\ \E h \in handles, t \in Threads :
          h.kind = "buf" /\ ~buffers[h.res].write /\ h.owners = {Client(t)}
    /\ \E h \in handles, t \in Threads, id \in DOMAIN tasks :
          h.kind = "buf" /\ buffers[h.res].write /\ h.owners = {Client(t), TaskRef(id)}
    /\ Idle(host_pools_) = {}

(* The texture handles of hs.                                              *)
TexHeld(hs) == {h \in hs : h.kind = "tex"}

(* C19: a create_texture call, public or made by an upload, with stride    *)
(* outside 1..4, width <= 0 or height <= 0 goes no further than the        *)
(* validation: the step ends the process, adds no texture handle, creates  *)
(* no texture and leaves every queue of the device tables as it was (a     *)
(* public call changes nothing at all); no call with such a shape ever     *)
(* reaches try_pop or the allocation.                                      *)
C19_PreconditionFatal ==
    [][\A i \in 1..Len(last_calls') :
        LET c == last_calls'[i]
        IN /\ (c.op = "verify_failed" /\ Len(c.req) = 4)
              => /\ impl_'.phase = "aborted"
                 /\ textures' = textures
                 /\ device_pools_' = device_pools_
                 /\ TexHeld(handles') = TexHeld(handles)
                 /\ c.thread # Executor
                      => host_pools_' = host_pools_ /\ handles' = handles
           /\ c.op = "create_texture"
              => c.req[3] \in 1..4 /\ c.req[1] > 0 /\ c.req[2] > 0
      ]_vars

C19_Witness ==
    /\ impl_.phase = "aborted"
    /\ \E c \in Calls :
          c.op = "verify_failed" /\ c.thread # Executor /\ Len(c.req) = 4 /\ c.req[3] = 5
    /\ Idle(device_pools_) # {}

(* The queue of a create call's key.                                       *)
CallKey(c) ==
    IF c.op = "create_texture"
    THEN TexturePool(c.req[1], c.req[2], c.req[3], c.req[4])
    ELSE HostPool(c.req[1], c.req[2])

(* What one step may do to the queues of a table: a queue stays as it is,  *)
(* gets one released resource appended, or loses its head to a create call *)
(* of exactly its key that returned that resource (a task may release the  *)
(* resource to the same queue again before it ends).                       *)
QueuesKept(map, map2, op, calls) ==
    \A k \in DOMAIN map \cup DOMAIN map2 :
        LET q  == QueueAt(map, k)
            q2 == QueueAt(map2, k)
        IN \/ q2 = q
           \/ Len(q2) = Len(q) + 1 /\ SubSeq(q2, 1, Len(q)) = q
           \/ /\ q # <<>>
              /\ \E c \in calls :
                    c.op = op /\ c.hit /\ c.res = Head(q) /\ CallKey(c) = k
              /\ \/ q2 = Tail(q)
                 \/ Len(q2) = Len(q) /\ SubSeq(q2, 1, Len(q) - 1) = Tail(q)

(* C20: outside the steps of gc and of ~impl no idle resource is dropped   *)
(* or evicted: each queue changes only by the append of a release or by    *)
(* the pop of a create call with its key, so its length is what it was     *)
(* plus the releases minus the acquisitions of the key.                    *)
C20_NoEviction ==
    [][\/ GcStep
       \/ impl_.phase = "joining" /\ impl_'.phase = "destroyed"
       \/ /\ QueuesKept(device_pools_, device_pools_', "create_texture", Calls')
          /\ QueuesKept(host_pools_, host_pools_', "create_buffer", Calls')
      ]_vars

C20_Witness ==
    /\ \E k \in DOMAIN host_pools_ : Len(host_pools_[k]) = 2
    /\ \E k \in DOMAIN device_pools_ : Len(device_pools_[k]) = 1
    /\ \E e \in lastreq : e.kind = "buf" /\ e.released

(* C21: a step in which info() returns leaves every queue of both tables   *)
(* and the key sets of both tables as they were, checks out nothing and    *)
(* touches no resource, task or handler, whatever the other threads are in *)
(* the middle of.                                                          *)
C21_InfoReadOnly ==
    [][\A i \in 1..Len(last_calls') :
        last_calls'[i].op = "info"
        => /\ device_pools_' = device_pools_
           /\ host_pools_' = host_pools_
           /\ handles' = handles
           /\ textures' = textures
           /\ buffers' = buffers
           /\ tasks' = tasks
           /\ io_queue' = io_queue
      ]_vars

(* info() has returned on one thread while another thread is inside a      *)
(* deleter, a task is queued on the executor and a texture is idle.        *)
C21_Witness ==
    \E c \in Calls :
        /\ c.op = "info"
        /\ c.report.device_total_count > 0
        /\ \E t \in Threads : t # c.thread /\ Busy(t)
        /\ io_queue # <<>>

(* The tasks whose body the executor thread is in the middle of.           *)
OnExecutor == {id \in DOMAIN tasks : tasks[id].pc = "waitIdle"}

UploadStep(id, pooled) ==
    /\ ExecStep(id)
    /\ tasks[id].kind = "upload"
    /\ (Held(handles, TaskRef(id), "buf") # {}) = pooled

(* The create_buffer calls of the step.                                    *)
BufferCalls == {i \in 1..Len(last_calls') : last_calls'[i].op = "create_buffer"}

(* An upload from bytes makes one create_buffer call, for a write buffer   *)
(* of the size of the source, and is given a buffer of that size and       *)
(* direction.                                                              *)
StagedOnce(id) ==
    /\ Cardinality(BufferCalls) = 1
    /\ \A i \in BufferCalls :
          /\ last_calls'[i].req = <<tasks[id].bytes[1], TRUE>>
          /\ buffers'[last_calls'[i].res].size = tasks[id].bytes[1]
          /\ buffers'[last_calls'[i].res].write

(* C23 as stated: an upload whose source is backed by a pooled buffer      *)
(* leaves every host queue and the number of buffers as they were; any     *)
(* other upload checks out exactly one write buffer of the source size.    *)
C23_FastPathFrame ==
    [][\A id \in DOMAIN tasks :
        /\ UploadStep(id, TRUE)
             => /\ BufferCalls = {}
                /\ Len(buffers') = Len(buffers)
                /\ host_pools_' = host_pools_
        /\ UploadStep(id, FALSE) => StagedOnce(id)
      ]_vars

(* C23, amended: the upload from a pooled buffer makes no create_buffer    *)
(* call and allocates nothing; the host queues stay as they were while     *)
(* another copy of the source view is alive, and when the task held the    *)
(* last copy the source buffer, and nothing else, is appended to the queue *)
(* of its size and direction as the task ends.                             *)
C23_FastPathReuse ==
    [][\A id \in DOMAIN tasks :
        /\ UploadStep(id, TRUE)
             => LET h == TheHeld(handles, TaskRef(id), "buf")
                IN /\ BufferCalls = {}
                   /\ Len(buffers') = Len(buffers)
                   /\ IF h.owners = {TaskRef(id)}
                      THEN ReleasedTo(host_pools_, host_pools_',
                                      HostPool(buffers[h.res].size, buffers[h.res].write),
                                      h.res)
                      ELSE host_pools_' = host_pools_
        /\ UploadStep(id, FALSE) => StagedOnce(id)
      ]_vars

(* An upload from a pooled array has finished after the client dropped its *)
(* view: the only buffer ever allocated is the source buffer, it is idle   *)
(* again, and the result is in the future.                                 *)
C23_Witness ==
    /\ \E id \in DOMAIN tasks :
          tasks[id].kind = "upload" /\ tasks[id].bytes = <<>> /\ tasks[id].fut = "ready"
    /\ \A h \in handles : h.kind = "tex"
    /\ Len(buffers) = 1
    /\ Idle(host_pools_) = {1}

(* The device calls made in the step.                                      *)
ApiMade == UNION {last_calls'[i].api : i \in 1..Len(last_calls')}

(* The executor runs a step of task id that tests its fence.               *)
TestStep(id) == ExecStep(id) /\ "waitForFences" \in ApiMade

(* C24: for every download, (1) the fence is created and the copy is       *)
(* submitted in the first step of the task, (2) the fence is tested only   *)
(* by a task that was suspended on its timer and resumed after the timer   *)
(* fired, (3) the timer is armed only after the submission or after a test *)
(* that did not find the fence signaled, (4) a resumption is queued only   *)
(* by the timer firing, (5) the fence is destroyed only in the step whose  *)
(* test found it signaled, which is the step that makes the future ready,  *)
(* and never again, and (6) a future that is ready with the view has its   *)
(* fence destroyed.                                                        *)
C24_PollProtocol ==
    [][\A id \in DOMAIN tasks :
        tasks[id].kind = "download" =>
            /\ (ExecStep(id) /\ ({"createFence", "submit"} \cap ApiMade # {}))
                  => tasks[id].pc = "queued" /\ tasks[id].fence = "none"
            /\ TestStep(id)
                  => /\ tasks[id].pc = "waiting"
                     /\ tasks[id].fence \in {"unsignaled", "signaled"}
                     /\ id \notin timers
            /\ (id \in timers' /\ id \notin timers)
                  => /\ \/ tasks[id].pc = "waitIdle"
                        \/ TestStep(id) /\ tasks[id].fence # "signaled"
                     /\ tasks'[id].pc = "waiting"
            /\ (id \in Range(io_queue') /\ id \notin Range(io_queue))
                  => tasks[id].pc = "waiting" /\ id \in timers /\ id \notin timers'
            /\ (ExecStep(id) /\ "destroyFence" \in ApiMade)
                  => /\ TestStep(id)
                     /\ tasks[id].fence = "signaled"
                     /\ id \in DOMAIN tasks' => /\ tasks'[id].fence = "destroyed"
                                                /\ tasks'[id].fut = "ready"
            /\ id \in DOMAIN tasks'
                  => /\ (tasks'[id].fence = "destroyed" /\ tasks[id].fence # "destroyed")
                          => ExecStep(id) /\ "destroyFence" \in ApiMade
                     /\ tasks[id].fence = "destroyed"
                          => tasks'[id] = tasks[id] /\ tasks[id].pc = "done"
                     /\ tasks'[id].fut = "ready" => tasks'[id].fence = "destroyed"
      ]_vars

(* A download has gone through the whole protocol: its future is ready     *)
(* with the view and the step just taken tested and destroyed the fence.   *)
C24_Witness ==
    \E id \in DOMAIN tasks :
        /\ tasks[id].kind = "download"
        /\ tasks[id].fut = "ready"
        /\ tasks[id].fence = "destroyed"
        /\ \E c \in Calls : c.api = {"waitForFences", "destroyFence"}
        /\ \E h \in handles : h.kind = "buf" /\ h.owners = {FutureRef(id)}

(* A queue of the table got longer in the step.                            *)
Pushed(map, map2) ==
    \E k \in DOMAIN map2 : Len(map2[k]) > Len(QueueAt(map, k))

(* C25: while any pooled handle exists ~impl has not begun, whether or not *)
(* the device object still exists, and every step that pushes a resource   *)
(* into a queue starts and ends with the pool tables not yet in teardown.  *)
C25_KeepAlive ==
    [][/\ handles # {} => impl_.phase \notin {"joining", "destroyed", "terminated"}
       /\ handles' # {} => impl_'.phase \notin {"joining", "destroyed", "terminated"}
       /\ (Pushed(device_pools_, device_pools_') \/ Pushed(host_pools_, host_pools_'))
            => impl_.phase = "running"
      ]_vars

(* The device object is gone, a handle is still held and a resource that   *)
(* was released is idle in its queue: impl is kept running by the handle.  *)
C25_Witness ==
    /\ ~impl_.device
    /\ impl_.phase = "running"
    /\ handles # {}
    /\ \E e \in lastreq : e.released /\ e.res \in Idle(host_pools_) \cup Idle(device_pools_)


(* Some queue of the table lost entries in this step.                      *)
Shrunk(map, map2) ==
    \E k \in DOMAIN map : Len(QueueAt(map2, k)) < Len(map[k])

(* A step of ~impl that empties pool queues: ~impl has begun, queues lose  *)
(* entries, and the step is not a handler run by the executor thread.      *)
TeardownClears ==
    /\ impl_.phase \notin {"running"}
    /\ Shrunk(device_pools_, device_pools_') \/ Shrunk(host_pools_, host_pools_')
    /\ ~\E id \in DOMAIN tasks : ExecStep(id)

(* C26: ~impl empties pool queues only in the step in which thread_.join() *)
(* has returned, when no handler is ready, no timer is armed and every     *)
(* task has finished; once ~impl has returned every queue of both tables   *)
(* is empty and stays empty, and no task is accepted or run any more, so   *)
(* no handler runs against a table that ~impl has cleared.                 *)
C26_TeardownOrder ==
    [][/\ TeardownClears =>
            /\ impl_.phase = "joining" /\ impl_'.phase = "destroyed"
            /\ io_queue = <<>> /\ timers = {}
            /\ \A id \in DOMAIN tasks : tasks[id].pc = "done"
       /\ impl_'.phase = "destroyed" =>
            NonEmpty(device_pools_') \cup NonEmpty(host_pools_') = {}
       /\ impl_.phase = "destroyed" =>
            /\ io_queue' = <<>> /\ timers' = {}
            /\ \A id \in DOMAIN tasks' : tasks'[id].pc = "done"
            /\ ~\E id \in DOMAIN tasks : ExecStep(id)
            /\ impl_'.phase = "destroyed"
      ]_vars

(* ~impl has just returned after emptying queues that held idle           *)
(* resources, and an upload that was still queued when ~impl began had run *)
(* during the join (it failed with std::bad_weak_ptr, the only error when  *)
(* no device call fails).                                                  *)
C26_Witness ==
    /\ impl_.phase = "destroyed"
    /\ scope.faults = {}
    /\ Len(last_calls) = 1 /\ last_calls[1].op = "api" /\ last_calls[1].api = {"destroy"}
    /\ \E r \in DOMAIN textures \cup DOMAIN buffers :
          IF r \in DOMAIN textures THEN ~textures[r].alive ELSE ~buffers[r].alive
    /\ \E id \in DOMAIN tasks :
          tasks[id].kind = "upload" /\ tasks[id].pc = "done" /\ tasks[id].fut = "error"


(* The report of the info() call that has just returned.                   *)
Reported == last_calls # <<>> /\ last_calls[1].op = "info"
Report == last_calls[1].report

(* The idle resources in the queue of key k, and the number of children    *)
(* of a subtree.                                                           *)
IdleAt(map, k) == Range(map[k])
ChildCount(children) ==
    Total(children, DOMAIN children)

(* C27: the tree info() returned has, for every key with idle resources,   *)
(* a child whose count is the number of idle resources of that key; the    *)
(* number of children is the number of such keys, so keys without idle     *)
(* resources have none; the device total count is the number of idle       *)
(* textures; the read and write total counts are the numbers of idle read  *)
(* and idle write buffers, a read_only child counts read buffers only and  *)
(* a write_only child write buffers only.                                  *)
C27_InfoTotals ==
    Reported =>
        /\ \A k \in DOMAIN device_pools_ : IdleAt(device_pools_, k) # {} =>
              \E e \in DOMAIN Report.pooled_device_buffers :
                 /\ e.count = Cardinality(IdleAt(device_pools_, k))
                 /\ \A r \in IdleAt(device_pools_, k) :
                       /\ e.stride = textures[r].stride
                       /\ e.width = textures[r].width % TwoTo16
                       /\ e.height = textures[r].height % TwoTo16
        /\ \A k \in DOMAIN host_pools_ : IdleAt(host_pools_, k) # {} =>
              \E e \in DOMAIN Report.pooled_host_buffers :
                 /\ e.count = Cardinality(IdleAt(host_pools_, k))
                 /\ \A r \in IdleAt(host_pools_, k) :
                       /\ e.size = buffers[r].size
                       /\ e.usage = IF buffers[r].write THEN "write_only" ELSE "read_only"
        /\ ChildCount(Report.pooled_device_buffers) =
              Cardinality({k \in DOMAIN device_pools_ : IdleAt(device_pools_, k) # {}})
        /\ ChildCount(Report.pooled_host_buffers) =
              Cardinality({k \in DOMAIN host_pools_ : IdleAt(host_pools_, k) # {}})
        /\ Report.device_total_count = Cardinality(Idle(device_pools_))
        /\ Report.total_read_count =
              Cardinality({r \in Idle(host_pools_) : ~buffers[r].write})
        /\ Report.total_write_count =
              Cardinality({r \in Idle(host_pools_) : buffers[r].write})

(* info() has reported while an idle texture, an idle read buffer and an   *)
(* idle write buffer were pooled.                                          *)
C27_Witness ==
    /\ Reported
    /\ Report.device_total_count > 0
    /\ Report.total_read_count > 0
    /\ Report.total_write_count > 0


(* C28: when the executor has run an upload whose source is not backed by  *)
(* a pooled buffer and the upload has completed, with a value or with an   *)
(* error, the buffer its create_buffer call took is alive and idle in the  *)
(* write queue keyed by the source size, and a result that is stored in    *)
(* the future is a texture checked out to the future alone.                *)
C28_StagingReturned ==
    [][\A id \in DOMAIN tasks :
        (UploadStep(id, FALSE) /\ tasks'[id].pc = "done")
           => /\ \A i \in BufferCalls :
                    /\ buffers'[last_calls'[i].res].alive
                    /\ last_calls'[i].res \in
                          Range(QueueAt(host_pools_', HostPool(tasks[id].bytes[1], TRUE)))
              /\ tasks'[id].fut = "ready" =>
                    \E h \in handles' :
                       /\ h.kind = "tex"
                       /\ h.owners = {FutureRef(id)}
                       /\ h.res \notin Idle(device_pools_')
      ]_vars


(* A download that has been accepted and has not finished, and the         *)
(* textures the task's copy of its source keeps checked out.               *)
Downloading(ts, id) ==
    id \in DOMAIN ts /\ ts[id].kind = "download" /\ ts[id].pc # "done"
Pinned(hs, id) == {h.res : h \in Held(hs, TaskRef(id), "tex")}

C30_NoFenceLeak ==
    \A id \in DOMAIN tasks :
        (tasks[id].kind = "download" /\ tasks[id].fut \in {"ready", "error"})
            => tasks[id].fence \in {"none", "destroyed"}


(* C32: whenever ~impl has begun, the thread that released the last        *)
(* reference to impl and runs ~impl is a client thread, and the process    *)
(* has not been ended by the executor thread joining itself.               *)
C32_TeardownOffExecutor ==
    impl_.phase \in {"joining", "destroyed", "terminated"}
        => (impl_.thread # Executor /\ impl_.phase # "terminated")


(* C33: an upload or download that the executor runs while ~impl waits in  *)
(* thread_.join() does not end with an error (no device call fails in this *)
(* scope, so any error comes from the teardown): a pending future becomes  *)
(* ready with the value when the task finishes, and the buffer its         *)
(* create_buffer call popped or allocated is alive afterwards.             *)
C33_DrainedWorkSucceeds ==
    [][\A id \in DOMAIN tasks :
        (/\ ExecStep(id)
         /\ impl_.phase = "joining"
         /\ scope.faults = {}
         /\ tasks[id].kind \in {"upload", "download"})
           => /\ tasks'[id].fut # "error"
              /\ (tasks'[id].pc = "done" /\ tasks[id].fut = "pending")
                    => tasks'[id].fut = "ready"
              /\ \A i \in 1..Len(last_calls') :
                    last_calls'[i].op = "create_buffer"
                       => buffers'[last_calls'[i].res].alive
      ]_vars


(* The handles whose deleter a client thread is running.                   *)
Releasing == {h \in handles : \E t \in scope.threads : h.owners = {Deleter(t)}}

====
